---- MODULE Spec2Model ----
(***************************************************************************)
(* A model of the BCM avatar frontend bridge (src/script.js): the timeout  *)
(* composer, the two HTTP transport functions, the response formatters,   *)
(* the domain and text operations, the keyword router and the            *)
(* configuration setter.                                                  *)
(*                                                                         *)
(* JavaScript values are records tagged by their type.  Display text is a  *)
(* TLA+ string; a text that the code inspects character by character (the  *)
(* router's utterance, a content type) is a sequence of one-character      *)
(* strings.                                                                *)
(***************************************************************************)
EXTENDS Integers, Sequences, FiniteSets, TLC

VARIABLES
    API_BASE,   \* the configured base URL (script.js:9)
    calls,      \* the invocations of public operations, one record each
    handles,    \* timeout handles composed directly with withTimeout
    fmtIn,      \* the value handed to a formatter
    fmtOut      \* what the formatter did with it

vars == <<API_BASE, calls, handles, fmtIn, fmtOut>>

(***************************************************************************)
(* Bounds of the model.                                                    *)
(***************************************************************************)
\* the longest sequence handed to a formatter
MaxItems == 2
\* the number of concurrent invocations
NCalls == 2
\* the number of handles composed directly
MaxHandles == 2

(***************************************************************************)
(* JavaScript values.                                                      *)
(***************************************************************************)
Undef == [t |-> "undefined"]
Null == [t |-> "null"]
Str(s) == [t |-> "string", s |-> s]
Num(n) == [t |-> "number", n |-> n]
Arr(a) == [t |-> "array", a |-> a]
\* an object is the sequence of its <<key, value>> pairs, in insertion order
Obj(kv) == [t |-> "object", kv |-> kv]

\* an Error object: its name and its message
Error(m) == [t |-> "error", name |-> "Error", message |-> m]
TypeError(m) == [t |-> "error", name |-> "TypeError", message |-> m]
SyntaxError(m) == [t |-> "error", name |-> "SyntaxError", message |-> m]

\* ToBoolean, as `!x`, `x || y` and `x ? y : z` apply it
Truthy(v) ==
    CASE v.t = "undefined" -> FALSE
      [] v.t = "null" -> FALSE
      [] v.t = "string" -> v.s # ""
      [] v.t = "number" -> v.n # 0
      [] v.t = "chars" -> Len(v.c) > 0
      [] OTHER -> TRUE

IsArray(v) == v.t = "array"

Nullish(v) == v.t \in {"undefined", "null"}

\* v[k] for a value that is neither null nor undefined: the last pair of an
\* object with that key, undefined for anything else
Get(v, k) ==
    IF v.t = "object" /\ \E i \in 1..Len(v.kv) : v.kv[i][1] = k
    THEN LET i == CHOOSE j \in 1..Len(v.kv) :
                      /\ v.kv[j][1] = k
                      /\ \A l \in 1..Len(v.kv) : v.kv[l][1] = k => l <= j
         IN v.kv[i][2]
    ELSE Undef

RECURSIVE JoinText(_, _)
\* Array.prototype.join over elements that are already text
JoinText(texts, sep) ==
    IF Len(texts) = 0 THEN ""
    ELSE IF Len(texts) = 1 THEN texts[1]
    ELSE texts[1] \o sep \o JoinText(Tail(texts), sep)

RECURSIVE ToStr(_)
\* String(v), which `${v}` applies as well
ToStr(v) ==
    CASE v.t = "undefined" -> "undefined"
      [] v.t = "null" -> "null"
      [] v.t = "string" -> v.s
      [] v.t = "number" -> ToString(v.n)
      [] v.t = "array" ->
            JoinText([i \in 1..Len(v.a) |->
                        IF Nullish(v.a[i]) THEN "" ELSE ToStr(v.a[i])], ",")
      [] v.t = "chars" -> JoinText(v.c, "")
      [] v.t = "error" ->
            IF v.name = "" THEN v.message
            ELSE IF v.message = "" THEN v.name
            ELSE v.name \o ": " \o v.message
      [] OTHER -> "[object Object]"

\* a property JSON.stringify writes: its value is not undefined
Written(pair) == pair[2].t # "undefined"

RECURSIVE JSONStringify(_)
\* JSON.stringify(v) of a value that is not undefined: an undefined element of
\* an array is written null, a property whose value is undefined is left out;
\* the texts of the model hold no character that JSON escapes
JSONStringify(v) ==
    CASE v.t = "null" -> "null"
      [] v.t = "undefined" -> "null"
      [] v.t = "string" -> "\"" \o v.s \o "\""
      [] v.t = "number" -> ToString(v.n)
      [] v.t = "array" ->
            "[" \o JoinText([i \in 1..Len(v.a) |-> JSONStringify(v.a[i])], ",")
                \o "]"
      [] OTHER ->
            LET kv == SelectSeq(v.kv, Written)
            IN "{" \o JoinText([i \in 1..Len(kv) |->
                          "\"" \o kv[i][1] \o "\":" \o JSONStringify(kv[i][2])],
                          ",")
                   \o "}"

(***************************************************************************)
(* The timeout composer (script.js:15-33).  An AbortController is the      *)
(* state of its signal: whether it is aborted and with which reason.  The  *)
(* external signal handed to withTimeout is [present, aborted, reason].    *)
(***************************************************************************)
DEFAULT_TIMEOUT_MS == 12000

NewController == [aborted |-> FALSE, reason |-> Undef]
NoController == [absent |-> TRUE]
NoSignal == [present |-> FALSE]
Signal(aborted, reason) ==
    [present |-> TRUE, aborted |-> aborted, reason |-> reason]

\* the state withTimeout leaves behind: the timer it started, the controller
\* the timer aborts, the second controller made for an external signal, and
\* whether the listener on the external signal is still to run
withTimeout(ms, signal) ==
    [ ms |-> ms,
      timer |-> "pending",
      ctrl |-> NewController,
      combined |-> IF signal.present THEN NewController ELSE NoController,
      listening |-> signal.present,
      released |-> FALSE ]

HasCombined(h) == "aborted" \in DOMAIN h.combined

\* the `signal` of the returned object: combined ? combined.signal : ctrl.signal
HandleSignal(h) == IF HasCombined(h) THEN h.combined ELSE h.ctrl

\* a timer callback that aborts nothing
OnTimerNoAbort(h) == [h EXCEPT !.timer = "fired"]

\* the timer's callback: () => ctrl.abort(new Error("Timeout"))
OnTimer(h) ==
    [h EXCEPT !.timer = "fired",
              !.ctrl = IF h.ctrl.aborted THEN h.ctrl
                       ELSE [aborted |-> TRUE, reason |-> Error("Timeout")]]

\* the listener: () => combined.abort(signal.reason || new Error("Aborted")),
\* registered with { once: true }
OnAbort(h, reason) ==
    [h EXCEPT !.listening = FALSE,
              !.combined = IF h.combined.aborted THEN h.combined
                           ELSE [aborted |-> TRUE,
                                 reason |-> IF Truthy(reason) THEN reason
                                            ELSE Error("Aborted")]]

\* the `clear` of the returned object: () => clearTimeout(id)
Clear(h) ==
    [h EXCEPT !.released = TRUE,
              !.timer = IF h.timer = "pending" THEN "cleared" ELSE h.timer]

(***************************************************************************)
(* The response formatters (script.js:89-108).  A formatter either returns *)
(* text or raises.                                                         *)
(***************************************************************************)
Text(s) == [raised |-> FALSE, text |-> s]
Raise(e) == [raised |-> TRUE, error |-> e]

\* reading property k of null or undefined
ReadOfNullish(v, k) ==
    TypeError("Cannot read properties of " \o ToStr(v)
                \o " (reading '" \o k \o "')")

\* data.map(line).join("\n"), given what line did for each element: the first
\* element whose line raises ends the map
MapJoin(rs) ==
    LET bad == {i \in 1..Len(rs) : rs[i].raised}
    IN IF bad # {}
       THEN rs[CHOOSE i \in bad : \A j \in bad : i <= j]
       ELSE Text(JoinText([i \in 1..Len(rs) |-> rs[i].text], "\n"))

NoCourses == "No courses available at the moment."
NoFaqs == "No FAQs available right now."
NoEnrollments == "No recent enrollments."

\* c => c.summary || JSON.stringify(c), as join renders it
CourseLine(c) ==
    IF Nullish(c) THEN Raise(ReadOfNullish(c, "summary"))
    ELSE IF Truthy(Get(c, "summary")) THEN Text(ToStr(Get(c, "summary")))
    ELSE Text(JSONStringify(c))

coursesToText(data) ==
    IF ~Truthy(data) \/ ~IsArray(Get(data, "courses")) THEN Text(NoCourses)
    ELSE IF Len(Get(data, "courses").a) = 0 THEN Text(NoCourses)
    ELSE LET courses == Get(data, "courses").a
         IN MapJoin([i \in 1..Len(courses) |-> CourseLine(courses[i])])

\* f => `${f.question}: ${f.answer}`
FaqLine(f) ==
    IF Nullish(f) THEN Raise(ReadOfNullish(f, "question"))
    ELSE Text(ToStr(Get(f, "question")) \o ": " \o ToStr(Get(f, "answer")))

faqsToText(data) ==
    IF ~IsArray(data) \/ Len(data.a) = 0 THEN Text(NoFaqs)
    ELSE MapJoin([i \in 1..Len(data.a) |-> FaqLine(data.a[i])])

\* e => `${e.full_name} enrolled in ${e.program_code || "a course"} on ${e.created_at}`
EnrollmentLine(e) ==
    IF Nullish(e) THEN Raise(ReadOfNullish(e, "full_name"))
    ELSE Text(ToStr(Get(e, "full_name")) \o " enrolled in "
              \o (IF Truthy(Get(e, "program_code"))
                  THEN ToStr(Get(e, "program_code")) ELSE "a course")
              \o " on " \o ToStr(Get(e, "created_at")))

enrollmentsToText(data) ==
    IF ~IsArray(data) \/ Len(data.a) = 0 THEN Text(NoEnrollments)
    ELSE MapJoin([i \in 1..Len(data.a) |-> EnrollmentLine(data.a[i])])

(***************************************************************************)
(* Texts the code searches: sequences of one-character strings.            *)
(***************************************************************************)
Chars(c) == [t |-> "chars", c |-> c]

UpperCase == <<"A", "B", "C", "D", "E", "F", "G", "H", "I", "J", "K", "L", "M", "N", "O", "P", "Q", "R", "S", "T", "U", "V", "W", "X", "Y", "Z">>
LowerCase == <<"a", "b", "c", "d", "e", "f", "g", "h", "i", "j", "k", "l", "m", "n", "o", "p", "q", "r", "s", "t", "u", "v", "w", "x", "y", "z">>

\* String.prototype.toLowerCase, character by character
ToLowerCase(c) ==
    [i \in 1..Len(c) |->
        IF \E k \in 1..Len(UpperCase) : UpperCase[k] = c[i]
        THEN LowerCase[CHOOSE k \in 1..Len(UpperCase) : UpperCase[k] = c[i]]
        ELSE c[i]]

\* String.prototype.includes: the needle occurs at some offset
Includes(hay, needle) ==
    \E off \in 0..(Len(hay) - Len(needle)) :
        \A i \in 1..Len(needle) : hay[off + i] = needle[i]

KwCourse == <<"c", "o", "u", "r", "s", "e">>
KwFaq == <<"f", "a", "q">>
ApplicationJson == <<"a", "p", "p", "l", "i", "c", "a", "t", "i", "o", "n", "/", "j", "s", "o", "n">>

(***************************************************************************)
(* The HTTP transport (script.js:35-86).                                   *)
(***************************************************************************)
Success(data) == [ok |-> TRUE, data |-> data]
Failure(msg) == [ok |-> FALSE, error |-> msg]

Ret(v) == [raised |-> FALSE, value |-> v]

\* err.message || String(err), for an Error object
ErrText(err) ==
    IF err.message # "" THEN err.message ELSE ToStr(err)

\* lines 36-42 and 62-69: the timeout is composed and the request is issued to
\* `${API_BASE}${path}` with the composed signal
httpStart(method, path, base) ==
    [ t |-> withTimeout(DEFAULT_TIMEOUT_MS, NoSignal),
      req |-> [method |-> method, path |-> path, url |-> base \o path] ]

\* res.ok
ResOk(res) == res.status >= 200 /\ res.status <= 299

\* lines 43-49 and 70-76: res.headers.get("content-type") || "", then the body
\* as JSON when the content type includes "application/json", as text
\* otherwise; a body that does not decode raises the SyntaxError of the
\* engine's parser, whose message depends on the body
ReadBody(res, body) ==
    LET contentType == IF Truthy(res.contentType) THEN res.contentType.c ELSE <<>>
    IN IF Includes(contentType, ApplicationJson)
       THEN IF body.valid THEN Ret(body.value)
            ELSE Raise(SyntaxError(body.message))
       ELSE Ret(Str(body.text))

\* a transport that never looks at the status
CheckStatusSkipped(method, path, res, data) == Ret(Success(data))

\* lines 50-53 and 77-80, after the body is read
CheckStatus(method, path, res, data) ==
    IF ~ResOk(res)
    THEN Raise(Error(method \o " " \o path \o " -> " \o ToString(res.status)
                        \o " " \o res.statusText))
    ELSE Ret(Success(data))

\* the try block from the response on
TryResponse(method, path, res, body) ==
    LET d == ReadBody(res, body)
    IN IF d.raised THEN d ELSE CheckStatus(method, path, res, d.value)

\* lines 54-55 and 81-82: the catch clause
Catch(err) == Failure(ErrText(err))

\* a transport without its catch clause
httpReturnNoCatch(tried) == tried

\* what httpGet / httpPost hands to its caller for what its try block did
httpReturn(tried) ==
    IF tried.raised THEN Ret(Catch(tried.error)) ELSE tried

(***************************************************************************)
(* The domain operations (script.js:111-143): the request each one issues  *)
(* and what it returns for the transport's outcome.                        *)
(***************************************************************************)
Request(method, path) == [method |-> method, path |-> path]

\* the i-th argument of an invocation, undefined when it is not given
Arg(args, i) == IF i <= Len(args) THEN args[i] ELSE Undef

\* res.ok ? res : { ok: false, error: msg }
OrFailure(res, msg) == IF res.ok THEN res ELSE Failure(msg)

fetchCourses(res) ==
    OrFailure(res, "Live system is unreachable. Please try again later.")

fetchFaqs(res) == OrFailure(res, "FAQs are not available right now.")

\* lines 126-130: the query holds limit and source when they are truthy; the
\* values of the model hold no character that the query escapes
EnrollmentsPath(limitArg, source) ==
    LET limit == IF limitArg.t = "undefined" THEN Num(10) ELSE limitArg
        q == (IF Truthy(limit) THEN <<"limit=" \o ToStr(limit)>> ELSE <<>>)
             \o (IF Truthy(source) THEN <<"source=" \o ToStr(source)>> ELSE <<>>)
    IN "/enrollments/recent"
       \o (IF Len(q) > 0 THEN "?" \o JoinText(q, "&") ELSE "")

fetchRecentEnrollments(res) ==
    OrFailure(res, "Unable to retrieve recent enrollments.")

createEnrollment(res) ==
    OrFailure(res, "Unable to create enrollment. Please try again.")

pingHealth(res) == res

(***************************************************************************)
(* The text operations (script.js:146-162).                                *)
(***************************************************************************)
\* the formatter's text as the value returned, its exception passed on
Formatted(f) == IF f.raised THEN f ELSE Ret(Str(f.text))

\* each text operation from the result r of its `await` on
fetchCoursesText(r) ==
    IF ~r.ok
    THEN Ret(Str("Sorry, my live system is unreachable. Please try again later."))
    ELSE Formatted(coursesToText(r.data))

fetchFaqsText(r) ==
    IF ~r.ok THEN Ret(Str("Sorry, FAQs are not available right now."))
    ELSE Formatted(faqsToText(r.data))

\* the apostrophe of the source's sentence is not ASCII; it is written ' here
fetchRecentEnrollmentsText(r) ==
    IF ~r.ok
    THEN Ret(Str("Sorry, I can't retrieve recent enrollments right now."))
    ELSE Formatted(enrollmentsToText(r.data))

(***************************************************************************)
(* The keyword router (script.js:165-180).                                 *)
(***************************************************************************)
\* String(utterance || "").toLowerCase()
Lowered(utterance) ==
    ToLowerCase(IF Truthy(utterance) THEN utterance.c ELSE <<>>)

\* a router that looks for "faq" first
RouteOfFaqFirst(utterance) ==
    IF Includes(Lowered(utterance), KwFaq) THEN "faqs"
    ELSE IF Includes(Lowered(utterance), KwCourse) THEN "courses"
    ELSE "chat"

\* the branch askBackend takes
RouteOf(utterance) ==
    IF Includes(Lowered(utterance), KwCourse) THEN "courses"
    ELSE IF Includes(Lowered(utterance), KwFaq) THEN "faqs"
    ELSE "chat"

\* askBackend from the value v of its `await` on: the text of a text
\* operation, or the outcome of httpPost("/chat")
askBackend(utterance, v) ==
    CASE RouteOf(utterance) = "courses" -> Success(v)
      [] RouteOf(utterance) = "faqs" -> Success(v)
      [] OTHER -> IF ~v.ok THEN Failure("Chat service is unavailable.")
                  ELSE v

(***************************************************************************)
(* An invocation of a public operation of window.BCM (script.js:183-201):  *)
(* the one request it issues, and the functions that await its outcome,    *)
(* innermost first.  Each of them resumes in a job of its own.             *)
(***************************************************************************)
Ops == { "fetchCourses", "fetchFaqs", "fetchRecentEnrollments",
         "createEnrollment", "pingHealth", "askBackend",
         "fetchCoursesText", "fetchFaqsText", "fetchRecentEnrollmentsText" }

RequestOf(op, args) ==
    CASE op \in {"fetchCourses", "fetchCoursesText"} ->
            Request("GET", "/courses/summary/all")
      [] op \in {"fetchFaqs", "fetchFaqsText"} -> Request("GET", "/faqs")
      [] op \in {"fetchRecentEnrollments", "fetchRecentEnrollmentsText"} ->
            Request("GET", EnrollmentsPath(Arg(args, 1), Arg(args, 2)))
      [] op = "createEnrollment" -> Request("POST", "/enroll")
      [] op = "pingHealth" -> Request("GET", "/health")
      [] op = "askBackend" ->
            CASE RouteOf(Arg(args, 1)) = "courses" ->
                    Request("GET", "/courses/summary/all")
              [] RouteOf(Arg(args, 1)) = "faqs" -> Request("GET", "/faqs")
              [] OTHER -> Request("POST", "/chat")

\* the async functions suspended on the request, from the one that awaits
\* httpGet / httpPost out to the public operation
FramesOf(op, args) ==
    CASE op = "fetchCoursesText" -> <<"fetchCourses", "fetchCoursesText">>
      [] op = "fetchFaqsText" -> <<"fetchFaqs", "fetchFaqsText">>
      [] op = "fetchRecentEnrollmentsText" ->
            <<"fetchRecentEnrollments", "fetchRecentEnrollmentsText">>
      [] op = "askBackend" ->
            CASE RouteOf(Arg(args, 1)) = "courses" ->
                    <<"fetchCourses", "fetchCoursesText", "askBackend">>
              [] RouteOf(Arg(args, 1)) = "faqs" ->
                    <<"fetchFaqs", "fetchFaqsText", "askBackend">>
              [] OTHER -> <<"askBackend">>
      [] OTHER -> <<op>>

\* the function f resumes with what its await settled to: an exception passes
\* through (no operation catches), a value is what the rest of f returns
Resumed(f, args, awaited) ==
    IF awaited.raised THEN awaited
    ELSE CASE f = "fetchCourses" -> Ret(fetchCourses(awaited.value))
           [] f = "fetchFaqs" -> Ret(fetchFaqs(awaited.value))
           [] f = "fetchRecentEnrollments" ->
                 Ret(fetchRecentEnrollments(awaited.value))
           [] f = "createEnrollment" -> Ret(createEnrollment(awaited.value))
           [] f = "pingHealth" -> Ret(pingHealth(awaited.value))
           [] f = "fetchCoursesText" -> fetchCoursesText(awaited.value)
           [] f = "fetchFaqsText" -> fetchFaqsText(awaited.value)
           [] f = "fetchRecentEnrollmentsText" ->
                 fetchRecentEnrollmentsText(awaited.value)
           [] f = "askBackend" -> Ret(askBackend(Arg(args, 1), awaited.value))

(***************************************************************************)
(* The state machine of the invocations.  An invocation runs without       *)
(* suspending up to its request (every public operation reaches fetch      *)
(* before its first await), then waits for the response, then for the      *)
(* body.  httpGet / httpPost ends (catch, finally, return) in the job that  *)
(* the response, the body or the rejection resumes; each function awaiting  *)
(* it resumes in a later job, and other code of the page runs in between.   *)
(***************************************************************************)
DefaultBase == "https://bcm-demo.onrender.com"

IdleCall == [pc |-> "idle"]
NoResponse == [absent |-> TRUE]
NoBody == [absent |-> TRUE]

Pending(k) == k.pc \in {"fetch", "body"}

\* httpGet / httpPost has returned its outcome
Returned(k) == k.pc \in {"resuming", "done"}

\* the public operation op(args) is invoked
Invoke(c, op, args) ==
    /\ calls[c].pc = "idle"
    /\ LET rq == RequestOf(op, args)
           st == httpStart(rq.method, rq.path, API_BASE)
       IN calls' = [calls EXCEPT ![c] =
                        [ pc |-> "fetch", op |-> op, args |-> args,
                          req |-> st.req, t |-> st.t, res |-> NoResponse ]]
    /\ UNCHANGED <<API_BASE, handles, fmtIn, fmtOut>>

\* a transport that releases the timer on the success path only
SettledLeak(k, ended, body, tried) ==
    [ pc |-> "resuming", op |-> k.op, args |-> k.args, req |-> k.req,
      t |-> IF tried.raised THEN k.t ELSE Clear(k.t),
      res |-> k.res, ended |-> ended, body |-> body,
      tried |-> tried, http |-> httpReturn(tried),
      frames |-> FramesOf(k.op, k.args), awaited |-> httpReturn(tried) ]

\* the end of httpGet / httpPost: the catch clause, the finally clause
\* (t.clear()), the return; the functions awaiting it are still suspended
Settled(k, ended, body, tried) ==
    [ pc |-> "resuming", op |-> k.op, args |-> k.args, req |-> k.req,
      t |-> Clear(k.t), res |-> k.res, ended |-> ended, body |-> body,
      tried |-> tried, http |-> httpReturn(tried),
      frames |-> FramesOf(k.op, k.args), awaited |-> httpReturn(tried) ]

\* the response's status line and headers arrive: fetch resolves
FetchResolves(c, res) ==
    /\ calls[c].pc = "fetch"
    /\ ~HandleSignal(calls[c].t).aborted
    /\ calls' = [calls EXCEPT ![c].pc = "body", ![c].res = res]
    /\ UNCHANGED <<API_BASE, handles, fmtIn, fmtOut>>

\* the network fails before a response: fetch rejects
FetchRejects(c, err) ==
    /\ calls[c].pc = "fetch"
    /\ calls' = [calls EXCEPT ![c] =
                    Settled(calls[c], "fetchRejected", NoBody, Raise(err))]
    /\ UNCHANGED <<API_BASE, handles, fmtIn, fmtOut>>

\* the body arrives whole: res.json() / res.text() settles
BodyArrives(c, body) ==
    /\ calls[c].pc = "body"
    /\ ~HandleSignal(calls[c].t).aborted
    /\ calls' = [calls EXCEPT ![c] =
                    Settled(calls[c], "bodyArrived", body,
                            TryResponse(calls[c].req.method, calls[c].req.path,
                                        calls[c].res, body))]
    /\ UNCHANGED <<API_BASE, handles, fmtIn, fmtOut>>

\* the network fails while the body is read
BodyFails(c, err) ==
    /\ calls[c].pc = "body"
    /\ calls' = [calls EXCEPT ![c] =
                    Settled(calls[c], "bodyFailed", NoBody, Raise(err))]
    /\ UNCHANGED <<API_BASE, handles, fmtIn, fmtOut>>

\* the duration timer of the call's handle fires
TimerFires(c) ==
    /\ Pending(calls[c])
    /\ calls[c].t.timer = "pending"
    /\ calls' = [calls EXCEPT ![c].t = OnTimer(calls[c].t)]
    /\ UNCHANGED <<API_BASE, handles, fmtIn, fmtOut>>

\* the signal given to fetch is aborted: the pending fetch or body read
\* rejects with the signal's reason
AbortRejects(c) ==
    /\ Pending(calls[c])
    /\ HandleSignal(calls[c].t).aborted
    /\ calls' = [calls EXCEPT ![c] =
                    Settled(calls[c], "aborted", NoBody,
                            Raise(HandleSignal(calls[c].t).reason))]
    /\ UNCHANGED <<API_BASE, handles, fmtIn, fmtOut>>

\* the innermost suspended function resumes with what it awaited and runs to
\* its return; the return of the outermost one is the operation's result
Resume(c) ==
    /\ calls[c].pc = "resuming"
    /\ LET k == calls[c]
           v == Resumed(Head(k.frames), k.args, k.awaited)
       IN calls' = [calls EXCEPT ![c] =
                        IF Len(k.frames) > 1
                        THEN [k EXCEPT !.frames = Tail(k.frames), !.awaited = v]
                        ELSE [ pc |-> "done", op |-> k.op, args |-> k.args,
                               req |-> k.req, t |-> k.t, res |-> k.res,
                               ended |-> k.ended, body |-> k.body,
                               tried |-> k.tried, http |-> k.http,
                               result |-> v ]]
    /\ UNCHANGED <<API_BASE, handles, fmtIn, fmtOut>>

\* the caller has taken the result
Return(c) ==
    /\ calls[c].pc = "done"
    /\ calls' = [calls EXCEPT ![c] = IdleCall]
    /\ UNCHANGED <<API_BASE, handles, fmtIn, fmtOut>>

\* a setter whose new base reaches the requests already issued
setApiBaseRebinding(url) ==
    /\ API_BASE' = IF Truthy(url) THEN ToStr(url) ELSE API_BASE
    /\ calls' = [c \in DOMAIN calls |->
                    IF Pending(calls[c])
                    THEN [calls[c] EXCEPT !.req.url = API_BASE' \o calls[c].req.path]
                    ELSE calls[c]]
    /\ UNCHANGED <<handles, fmtIn, fmtOut>>

\* window.BCM.setApiBase: API_BASE = String(url || API_BASE)
setApiBase(url) ==
    /\ API_BASE' = IF Truthy(url) THEN ToStr(url) ELSE API_BASE
    /\ UNCHANGED <<calls, handles, fmtIn, fmtOut>>

(***************************************************************************)
(* What the environment supplies.                                          *)
(***************************************************************************)
OtherBase == "http://localhost:8000"
BaseArgs == {Undef, Str(""), Str(OtherBase), Str(DefaultBase)}

Utterances ==
    { Undef, Chars(<<"C", "o", "u", "r", "s", "e", " ", "l", "i", "s", "t">>), Chars(<<"F", "A", "Q">>), Chars(<<"F", "A", "Q", " ", "o", "f", " ", "t", "h", "e", " ", "C", "O", "U", "R", "S", "E">>), Chars(<<"h", "i">>), Chars(<<"d", "i", "s", "C", "O", "U", "R", "S", "E">>) }

Invocations ==
    [op : Ops \ {"askBackend", "fetchRecentEnrollments"}, args : {<<>>}]
    \cup [op : {"askBackend"}, args : {<<u>> : u \in Utterances}]
    \cup [op : {"fetchRecentEnrollments"},
          args : {<<>>, <<Num(0)>>, <<Num(5), Str("web")>>}]

Responses ==
    [ status : {200}, statusText : {"OK"},
      contentType : {Null, Chars(ApplicationJson), Chars(<<"t", "e", "x", "t", "/", "h", "t", "m", "l">>)} ]
    \cup [ status : {404}, statusText : {"Not Found"},
           contentType : {Null, Chars(ApplicationJson), Chars(<<"t", "e", "x", "t", "/", "h", "t", "m", "l">>)} ]
    \cup [ status : {500}, statusText : {""},
           contentType : {Null, Chars(ApplicationJson), Chars(<<"t", "e", "x", "t", "/", "h", "t", "m", "l">>)} ]

JsonBody(v) == [valid |-> TRUE, value |-> v, text |-> JSONStringify(v)]
\* a body that JSON.parse rejects with the message given
BadBody(text, message) == [valid |-> FALSE, text |-> text, message |-> message]

\* the messages of the engine's parser for the two bodies below
EndOfInput == "Unexpected end of JSON input"
BadToken == "Unexpected token '<', \"<html>Bad \"... is not valid JSON"

CourseA == Obj(<< <<"summary", Str("A")>> >>)
CourseB == Obj(<< <<"id", Num(7)>>, <<"summary", Str("B")>> >>)
CourseNoSummary == Obj(<< <<"id", Num(7)>> >>)
CourseUndefSummary == Obj(<< <<"id", Num(7)>>, <<"summary", Undef>> >>)
Faq1 == Obj(<< <<"question", Str("Q1")>>, <<"answer", Str("A1")>> >>)
Enroll1 ==
    Obj(<< <<"full_name", Str("Ann")>>, <<"program_code", Str("P1")>>,
           <<"created_at", Str("D1")>> >>)
Enroll2 == Obj(<< <<"full_name", Str("Bob")>>, <<"created_at", Str("D2")>> >>)

Bodies ==
    { JsonBody(Null), JsonBody(Obj(<<>>)),
      JsonBody(Obj(<< <<"courses", Arr(<<CourseA, CourseB>>)>> >>)),
      JsonBody(Obj(<< <<"courses", Arr(<<CourseNoSummary>>)>> >>)),
      JsonBody(Obj(<< <<"courses", Arr(<<Null>>)>> >>)),
      JsonBody(Obj(<< <<"courses", Arr(<<>>)>> >>)),
      JsonBody(Arr(<<Faq1>>)), JsonBody(Arr(<<Null>>)), JsonBody(Arr(<<>>)),
      JsonBody(Arr(<<Enroll1, Enroll2>>)),
      BadBody("", EndOfInput), BadBody("<html>Bad Gateway</html>", BadToken) }

NetworkErrors == {TypeError("Failed to fetch"), TypeError("")}

(***************************************************************************)
(* One invocation at a time, with everything the environment can supply.   *)
(***************************************************************************)
Init ==
    /\ API_BASE = DefaultBase
    /\ calls = <<IdleCall>>
    /\ handles = <<>>
    /\ fmtIn = Undef
    /\ fmtOut = [fn |-> "none"]

Next ==
    \/ \E c \in DOMAIN calls : \E inv \in Invocations :
            Invoke(c, inv.op, inv.args)
    \/ \E c \in DOMAIN calls : \E res \in Responses : FetchResolves(c, res)
    \/ \E c \in DOMAIN calls : \E err \in NetworkErrors : FetchRejects(c, err)
    \/ \E c \in DOMAIN calls : \E body \in Bodies : BodyArrives(c, body)
    \/ \E c \in DOMAIN calls : \E err \in NetworkErrors : BodyFails(c, err)
    \/ \E c \in DOMAIN calls : TimerFires(c)
    \/ \E c \in DOMAIN calls : AbortRejects(c)
    \/ \E c \in DOMAIN calls : Resume(c)
    \/ \E c \in DOMAIN calls : Return(c)
    \/ \E url \in BaseArgs : setApiBase(url)

Spec == Init /\ [][Next]_vars

\* a rejection that is due is delivered: the job queue is always drained
FairSpec == Spec /\ \A c \in {1} : WF_vars(AbortRejects(c))

(***************************************************************************)
(* Concurrent invocations, with a smaller choice of what the environment   *)
(* supplies: every exit path of the transport, under an operation that     *)
(* awaits it directly and under one that awaits it through two others.     *)
(***************************************************************************)
ConcInvocations ==
    { [op |-> "createEnrollment", args |-> <<Enroll2>>],
      [op |-> "askBackend", args |-> <<Chars(KwCourse)>>] }
ConcResponses ==
    [ status : {200, 500}, statusText : {""},
      contentType : {Chars(ApplicationJson)} ]
ConcBodies == {JsonBody(Obj(<<>>)), BadBody("", EndOfInput)}
ConcErrors == {TypeError("Failed to fetch")}

ConcInit ==
    /\ API_BASE = DefaultBase
    /\ calls = [c \in 1..NCalls |-> IdleCall]
    /\ handles = <<>>
    /\ fmtIn = Undef
    /\ fmtOut = [fn |-> "none"]

ConcNext ==
    \/ \E c \in DOMAIN calls : \E inv \in ConcInvocations :
            Invoke(c, inv.op, inv.args)
    \/ \E c \in DOMAIN calls : \E res \in ConcResponses : FetchResolves(c, res)
    \/ \E c \in DOMAIN calls : \E err \in ConcErrors : FetchRejects(c, err)
    \/ \E c \in DOMAIN calls : \E body \in ConcBodies : BodyArrives(c, body)
    \/ \E c \in DOMAIN calls : \E err \in ConcErrors : BodyFails(c, err)
    \/ \E c \in DOMAIN calls : TimerFires(c)
    \/ \E c \in DOMAIN calls : AbortRejects(c)
    \/ \E c \in DOMAIN calls : Resume(c)
    \/ \E c \in DOMAIN calls : Return(c)

ConcSpec == ConcInit /\ [][ConcNext]_vars

(***************************************************************************)
(* Concurrent invocations while the page changes the base URL, at any      *)
(* point of an invocation: before the response, before the body, between   *)
(* the return of the transport and the return of the operation.            *)
(***************************************************************************)
ConcBaseArgs == {Str(""), Str(OtherBase)}
BaseResponses ==
    [ status : {200}, statusText : {"OK"},
      contentType : {Chars(ApplicationJson)} ]
BaseBodies == {JsonBody(Obj(<< <<"courses", Arr(<<CourseA, CourseB>>)>> >>))}

BaseInit ==
    /\ API_BASE = DefaultBase
    /\ calls = [c \in 1..NCalls |-> IdleCall]
    /\ handles = <<>>
    /\ fmtIn = Undef
    /\ fmtOut = [fn |-> "none"]

BaseNext ==
    \/ \E c \in DOMAIN calls : \E inv \in ConcInvocations :
            Invoke(c, inv.op, inv.args)
    \/ \E c \in DOMAIN calls : \E res \in BaseResponses : FetchResolves(c, res)
    \/ \E c \in DOMAIN calls : \E body \in BaseBodies : BodyArrives(c, body)
    \/ \E c \in DOMAIN calls : TimerFires(c)
    \/ \E c \in DOMAIN calls : AbortRejects(c)
    \/ \E c \in DOMAIN calls : Resume(c)
    \/ \E c \in DOMAIN calls : Return(c)
    \/ \E url \in ConcBaseArgs : setApiBase(url)

BaseSpec == BaseInit /\ [][BaseNext]_vars

(***************************************************************************)
(* The timeout composer on its own: handles composed with and without an   *)
(* external signal, the external signal activating, the timer firing, the  *)
(* release.                                                                *)
(***************************************************************************)
NoHandle == [made |-> FALSE]

Durations == {0, DEFAULT_TIMEOUT_MS}
AbortReasons == {Null, Error("Cancelled")}
Signals ==
    {NoSignal, Signal(FALSE, Undef)}
    \cup {Signal(TRUE, r) : r \in AbortReasons}

\* const t = withTimeout(ms, signal)
Compose(i, ms, signal) ==
    /\ ~handles[i].made
    /\ handles' = [handles EXCEPT ![i] =
                      [ made |-> TRUE, h |-> withTimeout(ms, signal),
                        given |-> signal, signal |-> signal ]]
    /\ UNCHANGED <<API_BASE, calls, fmtIn, fmtOut>>

\* the owner of the external signal aborts it: its abort event is dispatched,
\* once, to the listeners it has
ExternalAbort(i, reason) ==
    /\ handles[i].made
    /\ handles[i].signal.present
    /\ ~handles[i].signal.aborted
    /\ handles' = [handles EXCEPT
                      ![i].signal = Signal(TRUE, reason),
                      ![i].h = IF handles[i].h.listening
                               THEN OnAbort(handles[i].h, reason)
                               ELSE handles[i].h]
    /\ UNCHANGED <<API_BASE, calls, fmtIn, fmtOut>>

\* the duration elapses
DurationElapses(i) ==
    /\ handles[i].made
    /\ handles[i].h.timer = "pending"
    /\ handles' = [handles EXCEPT ![i].h = OnTimer(handles[i].h)]
    /\ UNCHANGED <<API_BASE, calls, fmtIn, fmtOut>>

\* t.clear()
Release(i) ==
    /\ handles[i].made
    /\ ~handles[i].h.released
    /\ handles' = [handles EXCEPT ![i].h = Clear(handles[i].h)]
    /\ UNCHANGED <<API_BASE, calls, fmtIn, fmtOut>>

ComposerInit ==
    /\ API_BASE = DefaultBase
    /\ calls = <<>>
    /\ handles = [i \in 1..MaxHandles |-> NoHandle]
    /\ fmtIn = Undef
    /\ fmtOut = [fn |-> "none"]

ComposerNext ==
    \/ \E i \in DOMAIN handles : \E ms \in Durations : \E signal \in Signals :
            Compose(i, ms, signal)
    \/ \E i \in DOMAIN handles : \E reason \in AbortReasons :
            ExternalAbort(i, reason)
    \/ \E i \in DOMAIN handles : DurationElapses(i)
    \/ \E i \in DOMAIN handles : Release(i)

ComposerSpec == ComposerInit /\ [][ComposerNext]_vars

(***************************************************************************)
(* The formatters on their own, over every value of a bounded universe.    *)
(***************************************************************************)
Elements ==
    { Null, Undef, Num(0), Str("x"), Obj(<<>>),
      CourseA, CourseB, CourseNoSummary, CourseUndefSummary, Faq1, Enroll1,
      Enroll2 }

RECURSIVE SeqsUpTo(_, _)
\* the sequences over S of length at most n
SeqsUpTo(S, n) ==
    IF n = 0 THEN {<<>>}
    ELSE LET shorter == SeqsUpTo(S, n - 1)
         IN shorter \cup {Append(q, e) : q \in shorter, e \in S}

FormatterInputs ==
    LET arrays == {Arr(q) : q \in SeqsUpTo(Elements, MaxItems)}
    IN {Undef, Null, Num(0), Num(3), Str(""), Str("courses"), Obj(<<>>)}
       \cup arrays
       \cup {Obj(<< <<"courses", v>> >>) : v \in arrays \cup {Null, Str("x")}}

FormatCourses ==
    /\ fmtOut.fn = "none"
    /\ fmtOut' = [fn |-> "coursesToText", out |-> coursesToText(fmtIn)]
    /\ UNCHANGED <<API_BASE, calls, handles, fmtIn>>

FormatFaqs ==
    /\ fmtOut.fn = "none"
    /\ fmtOut' = [fn |-> "faqsToText", out |-> faqsToText(fmtIn)]
    /\ UNCHANGED <<API_BASE, calls, handles, fmtIn>>

FormatEnrollments ==
    /\ fmtOut.fn = "none"
    /\ fmtOut' = [fn |-> "enrollmentsToText", out |-> enrollmentsToText(fmtIn)]
    /\ UNCHANGED <<API_BASE, calls, handles, fmtIn>>

FormatterInit ==
    /\ API_BASE = DefaultBase
    /\ calls = <<>>
    /\ handles = <<>>
    /\ fmtIn \in FormatterInputs
    /\ fmtOut = [fn |-> "none"]

FormatterNext == FormatCourses \/ FormatFaqs \/ FormatEnrollments

FormatterSpec == FormatterInit /\ [][FormatterNext]_vars

(***************************************************************************)
(* Properties.                                                             *)
(***************************************************************************)
Done(k) == k.pc = "done"

\* the lower-cased text of u contains kw
HasKeyword(u, kw) == u.t = "chars" /\ Includes(ToLowerCase(u.c), kw)

\* the response declares a JSON body
DeclaredJson(res) ==
    res.contentType.t = "chars" /\ Includes(res.contentType.c, ApplicationJson)

\* "<METHOD> <path> -> <status> <status phrase>"
StatusMessage(k) ==
    k.req.method \o " " \o k.req.path \o " -> " \o ToString(k.res.status)
        \o " " \o k.res.statusText

\* C1: a call whose duration timer has fired while its response or body was
\* still awaited eventually resolves, and resolves as a failure (ok = false).
C1_TimerFiredLeadsToFailure ==
    \A c \in {1} :
        (Pending(calls[c]) /\ calls[c].t.timer = "fired")
            ~> (/\ Returned(calls[c])
                /\ ~calls[c].http.raised
                /\ ~calls[c].http.value.ok)

C1_Witness ==
    \E c \in DOMAIN calls :
        /\ Returned(calls[c])
        /\ calls[c].ended = "aborted"
        /\ calls[c].t.timer = "fired"
        /\ calls[c].res # NoResponse
        /\ calls[c].http = Ret(Failure("Timeout"))

\* C2: a handle composed with an external signal that is already aborted has
\* its signal aborted from the moment it is composed.
C2_AlreadyAbortedSignalActivates ==
    \A i \in DOMAIN handles :
        (/\ handles[i].made
         /\ handles[i].given.present
         /\ handles[i].given.aborted) => HandleSignal(handles[i].h).aborted

\* C3: the signal of a handle is aborted once its duration has elapsed, and
\* once its external signal has been aborted, with or without an external
\* signal.
C3_SignalActivatesOnEither ==
    \A i \in DOMAIN handles :
        handles[i].made =>
            /\ handles[i].h.timer = "fired" => HandleSignal(handles[i].h).aborted
            /\ (/\ handles[i].signal.present
                /\ handles[i].signal.aborted
                /\ ~handles[i].given.aborted)
                    => HandleSignal(handles[i].h).aborted

\* C4: the request of an invocation is addressed to the base URL configured
\* at the moment of the invocation, no later step changes the request of an
\* invocation already made, and a change of the base URL is to a non-empty
\* argument of setApiBase and touches no invocation.
C4_BaseBoundAtInvocation ==
    [][ /\ \A c \in DOMAIN calls :
            /\ (calls[c].pc = "idle" /\ calls'[c].pc # "idle")
                  => calls'[c].req.url = API_BASE \o calls'[c].req.path
            /\ (calls[c].pc # "idle" /\ calls'[c].pc # "idle")
                  => calls'[c].req = calls[c].req
        /\ API_BASE' # API_BASE
              => /\ calls' = calls
                 /\ \E u \in ConcBaseArgs : Truthy(u) /\ API_BASE' = ToStr(u)
      ]_vars

C4_Witness ==
    \E a, b \in DOMAIN calls :
        /\ calls[a].pc = "resuming"
        /\ calls[a].t.released
        /\ Pending(calls[b])
        /\ API_BASE = OtherBase
        /\ calls[a].req.url = DefaultBase \o "/courses/summary/all"
        /\ calls[b].req.url = OtherBase \o "/courses/summary/all"

\* the value is what the formatter expects: a non-empty sequence of objects
ProperSequence(v) ==
    /\ IsArray(v)
    /\ Len(v.a) > 0
    /\ \A i \in 1..Len(v.a) : v.a[i].t = "object"

\* C5: a formatter never raises, and for an absent or malformed input it
\* returns its fixed fallback text.
C5_FormattersTotal ==
    fmtOut.fn # "none" =>
        /\ ~fmtOut.out.raised
        /\ (fmtOut.fn = "coursesToText"
              /\ ~(fmtIn.t = "object" /\ ProperSequence(Get(fmtIn, "courses"))))
              => fmtOut.out.text = NoCourses
        /\ (fmtOut.fn = "faqsToText" /\ ~ProperSequence(fmtIn))
              => fmtOut.out.text = NoFaqs
        /\ (fmtOut.fn = "enrollmentsToText" /\ ~ProperSequence(fmtIn))
              => fmtOut.out.text = NoEnrollments

\* C6: an askBackend whose lower-cased input contains "course" issues its one
\* request to GET /courses/summary/all, never to /chat or /faqs, and what it
\* returns is the courses text operation's result.
C6_CourseWinsOverFaqAndChat ==
    \A c \in DOMAIN calls :
        (/\ calls[c].pc # "idle"
         /\ calls[c].op = "askBackend"
         /\ HasKeyword(Arg(calls[c].args, 1), KwCourse))
            => /\ calls[c].req.method = "GET"
               /\ calls[c].req.path = "/courses/summary/all"
               /\ calls[c].req.path \notin {"/chat", "/faqs"}
               /\ (Done(calls[c]) /\ ~calls[c].http.raised)
                    => LET t == fetchCoursesText(fetchCourses(calls[c].http.value))
                       IN calls[c].result
                            = IF t.raised THEN t ELSE Ret(Success(t.value))

C6_Witness ==
    \E c \in DOMAIN calls :
        /\ Done(calls[c])
        /\ calls[c].op = "askBackend"
        /\ HasKeyword(Arg(calls[c].args, 1), KwCourse)
        /\ HasKeyword(Arg(calls[c].args, 1), KwFaq)
        /\ calls[c].req.path = "/courses/summary/all"
        /\ calls[c].result = Ret(Success(Str("A\nB")))

\* C7: from the moment a read or write call has returned its outcome, while
\* the operations awaiting it resume and after, its release function has
\* been invoked and its duration timer is not pending, on every exit path;
\* when every call has returned, no timer is pending.
C7_TimerReleasedOnReturn ==
    /\ \A c \in DOMAIN calls :
          Returned(calls[c]) =>
              /\ calls[c].t.released
              /\ calls[c].t.timer # "pending"
    /\ (\A c \in DOMAIN calls : ~Pending(calls[c]))
          => Cardinality({c \in DOMAIN calls :
                            Returned(calls[c]) /\ calls[c].t.timer = "pending"})
                = 0

C7_Witness ==
    \E a, b \in DOMAIN calls :
        /\ calls[a].pc = "resuming"
        /\ Done(calls[b])
        /\ calls[a].ended = "bodyArrived"
        /\ calls[a].tried.raised
        /\ calls[a].t.timer = "cleared"
        /\ calls[b].ended = "aborted"
        /\ calls[b].t.timer = "fired"
        /\ calls[b].t.released

\* C8: a read or write call never raises: whatever its try block threw, it
\* returns a failure outcome that carries the message text of what was thrown
\* (its string form when the message is empty) and no data.
C8_ThrownBecomesFailure ==
    \A c \in DOMAIN calls :
        Returned(calls[c]) =>
            /\ ~calls[c].http.raised
            /\ calls[c].tried.raised =>
                  /\ calls[c].http.value.ok = FALSE
                  /\ DOMAIN calls[c].http.value = {"ok", "error"}
                  /\ calls[c].http.value.error
                        = IF calls[c].tried.error.message # ""
                          THEN calls[c].tried.error.message
                          ELSE ToStr(calls[c].tried.error)

C8_Witness ==
    \E c \in DOMAIN calls :
        /\ Returned(calls[c])
        /\ calls[c].ended = "bodyArrived"
        /\ calls[c].tried = Raise(SyntaxError(BadToken))
        /\ calls[c].http = Ret(Failure(BadToken))

\* C9 as stated: whenever the response arrived with a non-2xx status, the
\* outcome is the failure whose message is the method, the path, the status
\* and the status phrase, whatever the content type and the body.
C9_StatusMessageWhateverBody ==
    \A c \in DOMAIN calls :
        (/\ Returned(calls[c])
         /\ calls[c].ended = "bodyArrived"
         /\ ~(calls[c].res.status \in 200..299))
            => calls[c].http = Ret(Failure(StatusMessage(calls[c])))

\* C9 amended: when the response arrived with a non-2xx status and its body
\* was read and decoded, the outcome is the failure with the status message;
\* when the body is declared as JSON and does not decode, the outcome is the
\* failure with the message of the decoder for that body; the outcome of a non-2xx response
\* never holds data.
C9_StatusMessageWhenBodyDecodes ==
    \A c \in DOMAIN calls :
        (/\ Returned(calls[c])
         /\ calls[c].res # NoResponse
         /\ ~(calls[c].res.status \in 200..299))
            => /\ ~calls[c].http.raised
               /\ DOMAIN calls[c].http.value = {"ok", "error"}
               /\ ~calls[c].http.value.ok
               /\ (/\ calls[c].ended = "bodyArrived"
                   /\ ~(DeclaredJson(calls[c].res) /\ ~calls[c].body.valid))
                     => calls[c].http.value.error = StatusMessage(calls[c])
               /\ (/\ calls[c].ended = "bodyArrived"
                   /\ DeclaredJson(calls[c].res)
                   /\ ~calls[c].body.valid)
                     => calls[c].http.value.error = calls[c].body.message

C9_Witness ==
    \E c \in DOMAIN calls :
        /\ Returned(calls[c])
        /\ calls[c].ended = "bodyArrived"
        /\ calls[c].res.status = 404
        /\ DeclaredJson(calls[c].res)
        /\ calls[c].body = JsonBody(Arr(<<Faq1>>))
        /\ calls[c].op = "fetchFaqs"
        /\ calls[c].http = Ret(Failure("GET /faqs -> 404 Not Found"))

\* C10: an askBackend whose input contains "course" or "faq" returns a success
\* whose data is text, whatever came of the request; askBackend returns a
\* failure on the /chat path only, with the fixed message.
C10_KeywordRoutesAlwaysSucceed ==
    \A c \in DOMAIN calls :
        (Done(calls[c]) /\ calls[c].op = "askBackend") =>
            /\ (\/ HasKeyword(Arg(calls[c].args, 1), KwCourse)
                \/ HasKeyword(Arg(calls[c].args, 1), KwFaq))
                  => /\ ~calls[c].result.raised
                     /\ calls[c].result.value.ok
                     /\ calls[c].result.value.data.t = "string"
            /\ (~calls[c].result.raised /\ ~calls[c].result.value.ok)
                  => /\ calls[c].req.path = "/chat"
                     /\ calls[c].result.value.error
                          = "Chat service is unavailable."

====
